---- MODULE Spec2Model ----
(***************************************************************************)
(* Model of intradistance_verticality.py: the intra_cli command, which     *)
(* optionally runs surface_verticality and then surface_self_distances on  *)
(* a pycurv triangle graph file and its companion polygon mesh file.       *)
(*                                                                         *)
(* Floats are fixed-point integers with Scale steps per unit: positions,   *)
(* normals and distances are in 1/Scale units, angles in 1/Scale degrees.  *)
(* dist_min and dist_max are the integers of the command line, tolerances  *)
(* are in thousandths.  np.nan is the value NaN, which compares false with *)
(* everything (Gt, Lt, Le).                                                *)
(*                                                                         *)
(* The vtk cell locator is external: a loaded surface is the function that *)
(* maps a query segment <<p0, pmax>> to the cell the segment hits and the  *)
(* intersection point, and Init draws the surface so that every outcome    *)
(* (no hit, hit below, inside and above the distance window) occurs.       *)
(***************************************************************************)
EXTENDS Integers, Sequences, FiniteSets, TLC

\* number of vertices of the triangle graph
NumPoints == 2
\* number of successive invocations of the command on the same files
MaxRuns == 2

Scale == 100
NaN == -1
HardTolerance == 1

Points == 1..NumPoints
DistMins == {3}
DistMaxs == {5}
Tolerances == {100, 1}

VARIABLES
    opts,               \* command line options of intra_cli
    graphFile,          \* the graph store file (graph_file)
    surfFile,           \* the polygon mesh file (surface_file)
    csvFile,            \* the CSV file next to the graph file
    input,              \* the three files as they were before the first run
    pc,                 \* position of the run
    run,                \* number of the current invocation
    tg,                 \* the TriangleGraph loaded by surface_self_distances
    locator,            \* the cell locator built from the loaded surface
    close_distances, close_id, far_distances, far_id,
    done,               \* indices the loop has processed
    queryTolerances,    \* tolerances passed to locator.IntersectWithLine
    firstOut            \* the four sequences written by the first run

vars == <<opts, graphFile, surfFile, csvFile, input, pc, run, tg, locator,
          close_distances, close_id, far_distances, far_id, done,
          queryTolerances, firstOut>>

----------------------------------------------------------------------------
\* float and vector arithmetic

IsNaN(x) == x = NaN
Gt(a, b) == ~IsNaN(a) /\ ~IsNaN(b) /\ a > b
Lt(a, b) == ~IsNaN(a) /\ ~IsNaN(b) /\ a < b
Le(a, b) == ~IsNaN(a) /\ ~IsNaN(b) /\ a <= b

Abs(x) == IF x < 0 THEN -x ELSE x

VAdd(a, b) == <<a[1] + b[1], a[2] + b[2], a[3] + b[3]>>
VSub(a, b) == <<a[1] - b[1], a[2] - b[2], a[3] - b[3]>>
VMul(a, k) == <<a[1] * k, a[2] * k, a[3] * k>>
VNeg(a) == <<-a[1], -a[2], -a[3]>>

RECURSIVE SqrtBetween(_, _, _)
SqrtBetween(n, lo, hi) ==
    IF lo >= hi THEN lo
    ELSE LET mid == (lo + hi + 1) \div 2
         IN  IF mid * mid <= n THEN SqrtBetween(n, mid, hi)
             ELSE SqrtBetween(n, lo, mid - 1)

\* np.linalg.norm, rounded down to the fixed-point step
Norm(v) ==
    LET n == v[1] * v[1] + v[2] * v[2] + v[3] * v[3]
    IN  SqrtBetween(n, 0, IF n > 40000 THEN 40000 ELSE n)

\* np.arccos(z)*180/np.pi for the z components that occur in Normals
ArccosDeg(z) ==
    CASE z = 100  -> 0
      [] z = 80   -> 3687
      [] z = 60   -> 5313
      [] z = 0    -> 9000
      [] z = -60  -> 12687
      [] z = -80  -> 14313
      [] z = -100 -> 18000

----------------------------------------------------------------------------
\* get_dist_two_directions

NoHit == [found |-> FALSE, cell |-> -1, p1 |-> <<0, 0, 0>>]

\* locator.IntersectWithLine(p0, pmax, tolerance, t, p1, pcoords, sub_id, cell1_id):
\* on a hit cell1_id and p1 are overwritten, otherwise they keep -1 and [0,0,0]
IntersectWithLine(loc, p0, pmax, tolerance) ==
    IF <<p0, pmax>> \in DOMAIN loc THEN loc[<<p0, pmax>>] ELSE NoHit

\* the window test with the lower end forgotten
OutsideWindowUpperOnly(distance, dist_min, dist_max) ==
    Gt(distance, (dist_max + 1) * Scale)

\* the window test of line 77
OutsideWindow(distance, dist_min, dist_max) ==
    \/ Gt(distance, (dist_max + 1) * Scale)
    \/ Lt(distance, (dist_min - 1) * Scale)

\* a pass that keeps the cell id of a hit it rejects as outside the window
ProbeDirectionKeepsId(point, direction, loc, dist_min, dist_max, tolerance) ==
    LET p0 == VAdd(point, VMul(direction, dist_min))
        pmax == VAdd(point, VMul(direction, dist_max))
        hit == IntersectWithLine(loc, p0, pmax, tolerance)
        distance == Norm(VSub(hit.p1, point))
    IN  IF hit.cell = -1 THEN <<NaN, -1>>
        ELSE IF \/ Gt(distance, (dist_max + 1) * Scale)
                \/ Lt(distance, (dist_min - 1) * Scale) THEN <<NaN, hit.cell>>
        ELSE <<distance, hit.cell>>

\* one pass of the loop over [-normal, normal]: <<distance, cell id>>
ProbeDirection(point, direction, loc, dist_min, dist_max, tolerance) ==
    LET p0 == VAdd(point, VMul(direction, dist_min))
        pmax == VAdd(point, VMul(direction, dist_max))
        hit == IntersectWithLine(loc, p0, pmax, tolerance)
        cell1_id == hit.cell
        p1 == hit.p1
        distance == Norm(VSub(p1, point))
    IN  IF cell1_id = -1 THEN <<NaN, -1>>
        ELSE IF OutsideWindow(distance, dist_min, dist_max) THEN <<NaN, -1>>
        ELSE <<distance, cell1_id>>

\* the reordering without the comparison of two valid distances
ReorderNoCompare(r0, r1) ==
    IF IsNaN(r0[1]) THEN <<r1, r0>> ELSE <<r0, r1>>

\* the reordering without the swap of a missing first result
ReorderNoNaNSwap(r0, r1) ==
    IF IsNaN(r0[1]) \/ IsNaN(r1[1]) THEN <<r0, r1>>
    ELSE IF Gt(r0[1], r1[1]) THEN <<r1, r0>>
    ELSE <<r0, r1>>

\* the reordering that also swaps two equal distances
ReorderTieSwaps(r0, r1) ==
    IF IsNaN(r0[1]) THEN <<r1, r0>>
    ELSE IF IsNaN(r1[1]) THEN <<r0, r1>>
    ELSE IF r0[1] >= r1[1] THEN <<r1, r0>>
    ELSE <<r0, r1>>

\* lines 84-93: r0 is the -normal result, r1 the +normal result
Reorder(r0, r1) ==
    IF IsNaN(r0[1]) THEN <<r1, r0>>
    ELSE IF IsNaN(r1[1]) THEN <<r0, r1>>
    ELSE IF Gt(r0[1], r1[1]) THEN <<r1, r0>>
    ELSE <<r0, r1>>

\* the assertion of line 96
OrderAssertion(distances) ==
    IsNaN(distances[2]) \/ Le(distances[1], distances[2])

GetDistTwoDirections(point, normal, loc, dist_min, dist_max, tolerance) ==
    LET r0 == ProbeDirection(point, VNeg(normal), loc, dist_min, dist_max, tolerance)
        r1 == ProbeDirection(point, normal, loc, dist_min, dist_max, tolerance)
        r == Reorder(r0, r1)
    IN  [close_distance |-> r[1][1], close_id |-> r[1][2],
         far_distance |-> r[2][1], far_id |-> r[2][2],
         asserted |-> OrderAssertion(<<r[1][1], r[2][1]>>)]

----------------------------------------------------------------------------
\* surface_verticality, line 111

\* the angle to the z axis without the fold at 90 degrees
VerticalityNoFold(z) == 90 * Scale - (ArccosDeg(z) - 90 * Scale)

Verticality(z) == 90 * Scale - Abs(ArccosDeg(z) - 90 * Scale)

----------------------------------------------------------------------------
\* the files and what they hold

EmptySurface == [s \in {} |-> NoHit]
NoProps == [n \in {} |-> <<>>]
NoArray == <<>>
NoGraph == [state |-> "none", xyz |-> <<>>, n_v |-> <<>>, tri |-> EmptySurface,
            vp |-> NoProps]
NoCsv == [exists |-> FALSE, columns |-> NoProps]

\* tg.graph.vp[name] = array
SetProp(vp, name, array) ==
    [n \in DOMAIN vp \cup {name} |-> IF n = name THEN array ELSE vp[n]]

\* export_csv: one column per scalar property, three per vector property
ExportCsv(g) ==
    LET vectors == {"xyz", "n_v"}
        comps == {"_x", "_y", "_z"}
        k(c) == CASE c = "_x" -> 1 [] c = "_y" -> 2 [] c = "_z" -> 3
        vec(v) == IF v = "xyz" THEN g.xyz ELSE g.n_v
    IN  [exists |-> TRUE,
         columns |->
            [col \in DOMAIN g.vp \cup {v \o c : v \in vectors, c \in comps} |->
                IF col \in DOMAIN g.vp THEN g.vp[col]
                ELSE LET vc == CHOOSE vc \in vectors \X comps : vc[1] \o vc[2] = col
                     IN  [i \in Points |-> vec(vc[1])[i][k(vc[2])]]]]

----------------------------------------------------------------------------
\* the inputs Init draws

NormalList == << <<0, 0, 100>>, <<0, 60, 80>>, <<0, 80, 60>>, <<100, 0, 0>>,
                 <<0, 80, -60>>, <<0, 60, -80>>, <<0, 0, -100>> >>
Shifts == 0..(Len(NormalList) - 1)

MeshXyz == [i \in Points |-> <<100 * i, 0, 0>>]
MeshNormals(shift) == [i \in Points |-> NormalList[((shift + i - 1) % Len(NormalList)) + 1]]

\* distances (in units) at which a surface may report a hit: just outside and
\* just inside the two ends of the window
HitOffsets(dist_min, dist_max) == <<dist_min - 2, dist_min - 1, dist_max + 1, dist_max + 2>>
Outcomes == 0..4

Direction(normal, k) == IF k = 1 THEN VNeg(normal) ELSE normal

\* outcome c of the probe from point i in direction k: 0 is a miss
HitFor(xyz, n_v, dist_min, dist_max, i, k, c) ==
    IF c = 0 THEN NoHit
    ELSE [found |-> TRUE,
          cell |-> ((i - 1) * 2 + (k - 1)) * 4 + (c - 1),
          p1 |-> VAdd(xyz[i], VMul(Direction(n_v[i], k), HitOffsets(dist_min, dist_max)[c]))]

\* the surface on which point i's two probes have outcomes c0+(i-1) and c1+2(i-1)
SurfaceOf(xyz, n_v, dist_min, dist_max, c0, c1) ==
    LET probes == Points \X {1, 2}
        seg(ik) == <<VAdd(xyz[ik[1]], VMul(Direction(n_v[ik[1]], ik[2]), dist_min)),
                     VAdd(xyz[ik[1]], VMul(Direction(n_v[ik[1]], ik[2]), dist_max))>>
        c(ik) == IF ik[2] = 1 THEN (c0 + ik[1] - 1) % 5 ELSE (c1 + 2 * (ik[1] - 1)) % 5
    IN  [s \in {seg(ik) : ik \in probes} |->
            LET ik == CHOOSE ik \in probes : seg(ik) = s
            IN  HitFor(xyz, n_v, dist_min, dist_max, ik[1], ik[2], c(ik))]

InitMemory ==
    /\ pc = "cli"
    /\ run = 1
    /\ tg = NoGraph
    /\ locator = EmptySurface
    /\ close_distances = NoArray
    /\ close_id = NoArray
    /\ far_distances = NoArray
    /\ far_id = NoArray
    /\ done = {}
    /\ queryTolerances = {}
    /\ firstOut = <<>>
    /\ csvFile = NoCsv
    /\ input = [graph |-> graphFile, surf |-> surfFile, csv |-> csvFile]

InitOpts ==
    \E v \in BOOLEAN, e \in BOOLEAN, t \in Tolerances, dmin \in DistMins, dmax \in DistMaxs :
        opts = [verticality |-> v, exportcsv |-> e, tolerance |-> t,
                dist_min |-> dmin, dist_max |-> dmax]

\* both files present and loadable; the polygon mesh file holds either the
\* surface of the graph's triangles or another surface
InitLoadable ==
    /\ InitOpts
    /\ \E shift \in Shifts, c0 \in Outcomes, c1 \in Outcomes, same \in BOOLEAN :
         LET xyz == MeshXyz
             n_v == MeshNormals(shift)
             surface == SurfaceOf(xyz, n_v, opts.dist_min, opts.dist_max, c0, c1)
             other == SurfaceOf(xyz, n_v, opts.dist_min, opts.dist_max, (c0 + 1) % 5, c1)
         IN  /\ surfFile = [state |-> "ok", surface |-> surface, arrays |-> {}]
             /\ graphFile = [state |-> "ok", xyz |-> xyz, n_v |-> n_v,
                             tri |-> IF same THEN surface ELSE other, vp |-> NoProps]
    /\ InitMemory

\* a file the run needs is missing or cannot be loaded
InitUnloadable ==
    /\ InitOpts
    /\ \E gs \in {"ok", "corrupt", "missing"}, ss \in {"ok", "missing"} :
         LET xyz == MeshXyz
             n_v == MeshNormals(0)
             surface == SurfaceOf(xyz, n_v, opts.dist_min, opts.dist_max, 2, 3)
         IN  /\ gs # "ok" \/ ss # "ok"
             /\ surfFile = IF ss = "ok" THEN [state |-> "ok", surface |-> surface, arrays |-> {}]
                           ELSE [state |-> "missing", surface |-> EmptySurface, arrays |-> {}]
             /\ graphFile = IF gs = "ok"
                            THEN [state |-> "ok", xyz |-> xyz, n_v |-> n_v,
                                  tri |-> surface, vp |-> NoProps]
                            ELSE [NoGraph EXCEPT !.state = gs]
    /\ InitMemory

Init == InitLoadable \/ InitUnloadable

----------------------------------------------------------------------------
\* intra_cli

memory == <<tg, locator, close_distances, close_id, far_distances, far_id, done>>
files == <<graphFile, surfFile, csvFile>>

\* lines 172 and 180-183: click checks that graph_file exists, then the
\* command starts with surface_verticality or surface_self_distances
Cli ==
    /\ pc = "cli"
    /\ pc' = IF graphFile.state = "missing" THEN "usage_error"
             ELSE IF opts.verticality THEN "verticality"
             ELSE "self_load"
    /\ UNCHANGED <<opts, input, run, memory, files, queryTolerances, firstOut>>

\* surface_verticality(graph_file), exportcsv=False
SurfaceVerticality ==
    /\ pc = "verticality"
    /\ IF graphFile.state # "ok"
       THEN /\ pc' = "load_error"
            /\ UNCHANGED graphFile
       ELSE LET z_values == [i \in Points |-> graphFile.n_v[i][3]]
                vert == [i \in Points |-> Verticality(z_values[i])]
            IN  /\ graphFile' = [graphFile EXCEPT !.vp = SetProp(@, "verticality", vert)]
                /\ pc' = "self_load"
    /\ UNCHANGED <<opts, input, run, memory, surfFile, csvFile, queryTolerances, firstOut>>

\* io.load_poly(surface_file): reading a missing file either raises or hands
\* back an empty surface
LoadPoly(file) ==
    IF file.state = "ok" THEN {[raised |-> FALSE, surface |-> file.surface]}
    ELSE {[raised |-> TRUE, surface |-> EmptySurface],
          [raised |-> FALSE, surface |-> EmptySurface]}

\* surface_self_distances, lines 131-144
SelfLoad ==
    /\ pc = "self_load"
    /\ \E loaded \in LoadPoly(surfFile) :
         IF loaded.raised \/ graphFile.state # "ok"
         THEN /\ pc' = "load_error"
              /\ UNCHANGED memory
         ELSE /\ locator' = loaded.surface
              /\ tg' = graphFile
              /\ close_distances' = [i \in Points |-> 0]
              /\ close_id' = [i \in Points |-> 0]
              /\ far_distances' = [i \in Points |-> 0]
              /\ far_id' = [i \in Points |-> 0]
              /\ done' = {}
              /\ pc' = "loop"
    /\ UNCHANGED <<opts, input, run, files, queryTolerances, firstOut>>

\* the tolerance line 149 hands to get_dist_two_directions
PassedTolerance(tolerance) == HardTolerance

\* results appended in the order in which the points are processed
StoreIndexAppend(i, processed) == Cardinality(processed) + 1

\* the index at which the result of point i is stored
StoreIndex(i, processed) == i

\* the body of the loop of lines 148-149 for point i
LoopBody(i) ==
    LET xyz == tg.xyz
        normal == tg.n_v
        r == GetDistTwoDirections(xyz[i], normal[i], locator, opts.dist_min,
                                  opts.dist_max, PassedTolerance(opts.tolerance))
        at == StoreIndex(i, done)
    IN  /\ close_distances' = [close_distances EXCEPT ![at] = r.close_distance]
        /\ close_id' = [close_id EXCEPT ![at] = r.close_id]
        /\ far_distances' = [far_distances EXCEPT ![at] = r.far_distance]
        /\ far_id' = [far_id EXCEPT ![at] = r.far_id]
        /\ queryTolerances' = queryTolerances \cup {PassedTolerance(opts.tolerance)}
        /\ done' = done \cup {i}
        /\ pc' = IF r.asserted THEN "loop" ELSE "assertion_error"
        /\ UNCHANGED <<opts, input, run, tg, locator, files, firstOut>>

\* for i in range(len(close_distances.a))
LoopStep ==
    /\ pc = "loop"
    /\ done # Points
    /\ LoopBody(CHOOSE i \in Points \ done : \A j \in Points \ done : i <= j)

\* lines 151-168: the properties are attached, the graph file is saved, the
\* polygon mesh file is rewritten from the graph, the CSV is exported
WriteOut ==
    /\ pc = "loop"
    /\ done = Points
    /\ LET vp1 == SetProp(tg.vp, "self_dist_min", close_distances)
           vp2 == SetProp(vp1, "self_id_min", close_id)
           vp3 == SetProp(vp2, "self_dist_far", far_distances)
           vp4 == SetProp(vp3, "self_id_far", far_id)
           graph == [tg EXCEPT !.vp = vp4]
       IN  /\ tg' = graph
           /\ graphFile' = graph
           /\ surfFile' = [state |-> "ok", surface |-> graph.tri, arrays |-> DOMAIN vp4]
           /\ csvFile' = IF opts.exportcsv THEN ExportCsv(graph) ELSE csvFile
    /\ firstOut' = IF run = 1
                   THEN <<close_distances, close_id, far_distances, far_id>>
                   ELSE firstOut
    /\ pc' = "done"
    /\ UNCHANGED <<opts, input, run, locator, close_distances, close_id,
                   far_distances, far_id, done, queryTolerances>>

\* the command is run again on the files the previous run left
Rerun ==
    /\ pc = "done"
    /\ run < MaxRuns
    /\ run' = run + 1
    /\ pc' = "cli"
    /\ tg' = NoGraph
    /\ locator' = EmptySurface
    /\ close_distances' = NoArray
    /\ close_id' = NoArray
    /\ far_distances' = NoArray
    /\ far_id' = NoArray
    /\ done' = {}
    /\ queryTolerances' = {}
    /\ UNCHANGED <<opts, input, files, firstOut>>

Next == Cli \/ SurfaceVerticality \/ SelfLoad \/ LoopStep \/ WriteOut \/ Rerun

Spec == Init /\ [][Next]_vars

\* the loop with its points taken in any order, as workers would take them
AnyOrderStep ==
    /\ pc = "loop"
    /\ \E i \in Points \ done : LoopBody(i)

NextAnyOrder == Cli \/ SurfaceVerticality \/ SelfLoad \/ AnyOrderStep \/ WriteOut \/ Rerun

SpecAnyOrder == Init /\ [][NextAnyOrder]_vars

----------------------------------------------------------------------------
\* what the claims speak about

\* the locator's answer to the probe from point i along -normal (k = 1) or
\* +normal (k = 2), and how far from the point it lies
RawHit(i, k) ==
    LET direction == Direction(tg.n_v[i], k)
    IN  IntersectWithLine(locator,
                          VAdd(tg.xyz[i], VMul(direction, opts.dist_min)),
                          VAdd(tg.xyz[i], VMul(direction, opts.dist_max)),
                          HardTolerance)
RawDistance(i, k) == Norm(VSub(RawHit(i, k).p1, tg.xyz[i]))
WindowLow == (opts.dist_min - 1) * Scale
WindowHigh == (opts.dist_max + 1) * Scale
RawClass(i, k) ==
    IF ~RawHit(i, k).found THEN "miss"
    ELSE IF RawDistance(i, k) < WindowLow \/ RawDistance(i, k) > WindowHigh THEN "outside"
    ELSE "inside"

\* the pair a probe yields: its hit if that is inside the window
ProbeResult(i, k) ==
    IF RawClass(i, k) = "inside" THEN <<RawDistance(i, k), RawHit(i, k).cell>>
    ELSE <<NaN, -1>>

Stored(i) == <<close_distances[i], close_id[i], far_distances[i], far_id[i]>>
Written == "self_dist_min" \in DOMAIN graphFile.vp

\* C1: for every processed point, and for every point of the saved graph,
\* close_id = -1 exactly when close_distance is NaN, and far_id = -1 exactly
\* when far_distance is NaN
SentinelConsistency ==
    /\ \A i \in done :
         /\ close_id[i] = -1 <=> IsNaN(close_distances[i])
         /\ far_id[i] = -1 <=> IsNaN(far_distances[i])
    /\ Written =>
         \A i \in Points :
            /\ graphFile.vp["self_id_min"][i] = -1 <=> IsNaN(graphFile.vp["self_dist_min"][i])
            /\ graphFile.vp["self_id_far"][i] = -1 <=> IsNaN(graphFile.vp["self_dist_far"][i])

\* a run has finished in which some point had a hit outside the window on
\* one side and a hit inside it on the other
SentinelWitness ==
    /\ pc = "done"
    /\ \E i \in done :
         /\ RawClass(i, 1) = "outside"
         /\ RawClass(i, 2) = "inside"
         /\ far_id[i] = -1
         /\ close_id[i] # -1

\* C2: for every processed point far_distance is NaN or close_distance <=
\* far_distance, and the ordering assertion never fails
Ordering ==
    /\ pc # "assertion_error"
    /\ \A i \in done : IsNaN(far_distances[i]) \/ Le(close_distances[i], far_distances[i])

\* a point whose -normal hit was farther than its +normal hit, so that the
\* two were exchanged
OrderingWitness ==
    \E i \in done :
        /\ RawClass(i, 1) = "inside"
        /\ RawClass(i, 2) = "inside"
        /\ RawDistance(i, 1) > RawDistance(i, 2)
        /\ close_distances[i] < far_distances[i]

\* C3: every stored distance that is not NaN lies in [dist_min - 1, dist_max + 1],
\* and the cell of a hit outside that window is stored in neither slot
WindowBound ==
    \A i \in done :
        /\ \A d \in {close_distances[i], far_distances[i]} :
              ~IsNaN(d) => WindowLow <= d /\ d <= WindowHigh
        /\ \A k \in {1, 2} :
              RawClass(i, k) = "outside" => RawHit(i, k).cell \notin {close_id[i], far_id[i]}

\* a point with a hit on the upper edge of the window on one side and a hit
\* beyond it on the other
WindowWitness ==
    \E i \in done :
        /\ RawHit(i, 1).found
        /\ RawDistance(i, 1) = WindowHigh
        /\ close_distances[i] = WindowHigh
        /\ RawClass(i, 2) = "outside"
        /\ RawDistance(i, 2) > WindowHigh
        /\ IsNaN(far_distances[i])

\* C4: when exactly one probe has a valid hit (d, id) the point stores
\* (d, id, NaN, -1), when neither has one it stores (NaN, -1, NaN, -1), and a
\* valid far_distance comes with a valid close_distance
CanonicalPair ==
    \A i \in done :
        LET v1 == RawClass(i, 1) = "inside"
            v2 == RawClass(i, 2) = "inside"
        IN  /\ v1 /\ ~v2 => Stored(i) = <<RawDistance(i, 1), RawHit(i, 1).cell, NaN, -1>>
            /\ v2 /\ ~v1 => Stored(i) = <<RawDistance(i, 2), RawHit(i, 2).cell, NaN, -1>>
            /\ ~v1 /\ ~v2 => Stored(i) = <<NaN, -1, NaN, -1>>
            /\ ~IsNaN(far_distances[i]) => ~IsNaN(close_distances[i])

\* a point whose only valid hit is the one along +normal, stored as close
CanonicalWitness ==
    \E i \in done :
        /\ RawClass(i, 1) # "inside"
        /\ RawClass(i, 2) = "inside"
        /\ close_id[i] = RawHit(i, 2).cell
        /\ IsNaN(far_distances[i])

\* C8: the verticality saved for a point lies in [0, 90] degrees, is 0 exactly
\* when the raw angle of its normal is 0 or 180 and 90 exactly when it is 90
VerticalityBound ==
    "verticality" \in DOMAIN graphFile.vp =>
        \A i \in Points :
            LET raw_angle == ArccosDeg(graphFile.n_v[i][3])
                v == graphFile.vp["verticality"][i]
            IN  /\ 0 <= v /\ v <= 90 * Scale
                /\ v = 0 <=> raw_angle \in {0, 180 * Scale}
                /\ v = 90 * Scale <=> raw_angle = 90 * Scale

\* a saved graph with a normal opposed to the z axis and one at an obtuse
\* angle to it
VerticalityWitness ==
    /\ "verticality" \in DOMAIN graphFile.vp
    /\ \E i \in Points, j \in Points :
         /\ ArccosDeg(graphFile.n_v[i][3]) = 180 * Scale
         /\ graphFile.vp["verticality"][i] = 0
         /\ ArccosDeg(graphFile.n_v[j][3]) > 90 * Scale
         /\ graphFile.vp["verticality"][j] \in 1..(90 * Scale - 1)

\* C9: every processed point stores its +normal result (d1, id1) before its
\* -normal result (d0, id0) if d0 is NaN, else the -normal result first if d1
\* is NaN, else the +normal result first if d0 > d1, else the -normal result
\* first
ReorderingRule ==
    \A i \in done :
        LET d0 == ProbeResult(i, 1)[1]
            id0 == ProbeResult(i, 1)[2]
            d1 == ProbeResult(i, 2)[1]
            id1 == ProbeResult(i, 2)[2]
        IN  Stored(i) = IF IsNaN(d0) THEN <<d1, id1, d0, id0>>
                        ELSE IF IsNaN(d1) THEN <<d0, id0, d1, id1>>
                        ELSE IF d0 > d1 THEN <<d1, id1, d0, id0>>
                        ELSE <<d0, id0, d1, id1>>

\* a point with two valid hits at the same distance, the -normal one stored
\* as close
ReorderingWitness ==
    \E i \in done :
        /\ RawClass(i, 1) = "inside"
        /\ RawClass(i, 2) = "inside"
        /\ RawDistance(i, 1) = RawDistance(i, 2)
        /\ close_id[i] = RawHit(i, 1).cell
        /\ far_id[i] = RawHit(i, 2).cell

\* the four sequences the loop of lines 148-149 leaves when it takes the
\* points from index i on in ascending order
RECURSIVE SequentialLoop(_, _)
SequentialLoop(out, i) ==
    IF i > NumPoints THEN out
    ELSE LET r == GetDistTwoDirections(tg.xyz[i], tg.n_v[i], locator, opts.dist_min,
                                       opts.dist_max, PassedTolerance(opts.tolerance))
             at == StoreIndex(i, 1..(i - 1))
         IN  SequentialLoop(<<[out[1] EXCEPT ![at] = r.close_distance],
                              [out[2] EXCEPT ![at] = r.close_id],
                              [out[3] EXCEPT ![at] = r.far_distance],
                              [out[4] EXCEPT ![at] = r.far_id]>>, i + 1)

\* C10: with the points taken in any order, a processed point holds the result
\* of its own position and normal, an unprocessed index is still untouched,
\* the graph and the locator are the ones that were loaded, and once every
\* point is processed the four sequences are those of the sequential loop
PointIndependence ==
    pc = "loop" =>
        /\ \A i \in done :
              LET r == GetDistTwoDirections(tg.xyz[i], tg.n_v[i], locator, opts.dist_min,
                                            opts.dist_max, HardTolerance)
              IN  Stored(i) = <<r.close_distance, r.close_id, r.far_distance, r.far_id>>
        /\ \A i \in Points \ done : Stored(i) = <<0, 0, 0, 0>>
        /\ tg = graphFile
        /\ locator \in {loaded.surface : loaded \in LoadPoly(surfFile)}
        /\ done = Points =>
              <<close_distances, close_id, far_distances, far_id>>
                 = SequentialLoop(<<[i \in Points |-> 0], [i \in Points |-> 0],
                                    [i \in Points |-> 0], [i \in Points |-> 0]>>, 1)

\* the last point has been processed before any other, which the sequential
\* loop never does
IndependenceWitness ==
    /\ pc = "loop"
    /\ NumPoints > 1
    /\ done = {NumPoints}
    /\ Stored(NumPoints) # <<0, 0, 0, 0>>
    /\ Stored(1) = <<0, 0, 0, 0>>

\* C5: when the graph file or the polygon mesh file is missing or cannot be
\* loaded, no output is written: the graph file, the polygon mesh file and the
\* CSV stay as they were
FailFast ==
    (input.graph.state # "ok" \/ input.surf.state # "ok") =>
        /\ graphFile = input.graph
        /\ surfFile = input.surf
        /\ csvFile = input.csv

\* C6: every tolerance handed to locator.IntersectWithLine is the tolerance
\* option of the command
TolerancePassThrough ==
    \A t \in queryTolerances : t = opts.tolerance

\* C7: when both input files are loadable, a second run on the files the first
\* run left yields the four sequences of the first run
Idempotence ==
    (input.graph.state = "ok" /\ input.surf.state = "ok" /\ run > 1 /\ pc = "done") =>
        <<close_distances, close_id, far_distances, far_id>> = firstOut

====
